---- MODULE Spec2Model ----
(***************************************************************************)
(* Model of the Telegram listener of AutoAnswer:                           *)
(*   - MediaService.process_media        (services/telegram/media_service) *)
(*   - TelegramUserClient media-group debounce buffer (telegramlistener)   *)
(*   - TypingService start/cancel task registry (typing_service)           *)
(*   - CallbackService start/stop/send   (services/telegram/callback_service) *)
(* The specifications of the module share its variables: Spec (the         *)
(* listener), SpecFlush and SpecDebounce (albums), SpecSend and            *)
(* SpecLifecycle (the dispatcher), SpecTyping and SpecTypingLive (the      *)
(* typing registry) and SpecMedia (process_media as a function of its      *)
(* configuration, message and fetch outcome).                              *)
(***************************************************************************)
EXTENDS Integers, Sequences, FiniteSets, TLC

VARIABLES
    \* ---- configuration (services/telegram/config.py)
    cfg,
    \* ---- SpecMedia: one call of MediaService.process_media
    mmsg, mres, mpc,
    \* ---- Spec: TelegramUserClient
    since, arrived, media_group_buffers, tasks, sendCalls, http_session, clientPc,
    \* ---- CallbackService: the start() and stop() calls made on it
    lifecycle,
    \* ---- SpecTyping: TypingService and the registry _typing_tasks
    registry, ttasks, signals, cancelCalls

mediaVars == <<mmsg, mres, mpc>>
listenerVars == <<since, arrived, media_group_buffers, tasks, sendCalls, http_session, clientPc>>
typingVars == <<registry, ttasks, signals, cancelCalls>>
vars == <<cfg, mmsg, mres, mpc, since, arrived, media_group_buffers, tasks, sendCalls,
          http_session, clientPc, lifecycle, registry, ttasks, signals, cancelCalls>>

(***************************************************************************)
(* Generic helpers                                                         *)
(***************************************************************************)
Range(s) == {s[i] : i \in 1..Len(s)}

\* Python's Optional[T]: <<>> is None, <<v>> is the value v.
None == <<>>
Some(v) == <<v>>
IsNone(o) == o = <<>>

(***************************************************************************)
(* Config (services/telegram/config.py)                                    *)
(***************************************************************************)
MAX_MEDIA_SIZE == 10
CALLBACK_RETRIES == 3

AllMediaTypes == {"photo", "video", "audio", "voice", "document", "sticker", "animation"}

\* The environment defaults: ENABLE_MEDIA_DOWNLOAD "true", MAX_MEDIA_SIZE "10",
\* DOWNLOAD_MEDIA_TYPES "all", CALLBACK_RETRIES "3".
DefaultConfig ==
    [ENABLE_MEDIA_DOWNLOAD |-> TRUE,
     MAX_MEDIA_SIZE |-> MAX_MEDIA_SIZE,
     DOWNLOAD_MEDIA_TYPES |-> AllMediaTypes,
     CALLBACK_RETRIES |-> CALLBACK_RETRIES]

\* Configurations the environment can set.
Configs ==
    [ENABLE_MEDIA_DOWNLOAD : BOOLEAN,
     MAX_MEDIA_SIZE : {MAX_MEDIA_SIZE},
     DOWNLOAD_MEDIA_TYPES : {AllMediaTypes, {"photo"}, {"video", "document"}, {}, {"unknown", "photo"}},
     CALLBACK_RETRIES : {CALLBACK_RETRIES}]

\* CALLBACK_RETRIES is int(os.getenv(...)), not validated: 0 makes range() empty.
RetryValues == 0..CALLBACK_RETRIES
SendConfigs == {[DefaultConfig EXCEPT !.CALLBACK_RETRIES = n] : n \in RetryValues}

(***************************************************************************)
(* Messages' media (telethon MessageMedia* objects, as the code reads them) *)
(*   cls       class of message.media ("None": no media)                   *)
(*   sizes     media.photo.sizes: each entry is Some(n) when the entry has  *)
(*             a 'size' attribute, None when it has not                     *)
(*   document  media.document is set                                        *)
(*   doc_size  media.document.size                                          *)
(*   attrs     class names of media.document.attributes, in order           *)
(*   fetch     what client.download_media does: "ok" or "raises"            *)
(*   fetch_len number of bytes it writes when it returns                    *)
(***************************************************************************)
MB == 1024 * 1024

NoMedia ==
    [cls |-> "None", sizes |-> <<>>, document |-> FALSE, doc_size |-> 0,
     attrs |-> <<>>, fetch |-> "ok", fetch_len |-> 0]

Photo(sizes, fetch, len) ==
    [cls |-> "MessageMediaPhoto", sizes |-> sizes, document |-> FALSE, doc_size |-> 0,
     attrs |-> <<>>, fetch |-> fetch, fetch_len |-> len]

Document(has, size, attrs, fetch, len) ==
    [cls |-> "MessageMediaDocument", sizes |-> <<>>, document |-> has, doc_size |-> size,
     attrs |-> attrs, fetch |-> fetch, fetch_len |-> len]

OtherMedia(cls) ==
    [cls |-> cls, sizes |-> <<>>, document |-> FALSE, doc_size |-> 0,
     attrs |-> <<>>, fetch |-> "ok", fetch_len |-> 0]

DOWNLOADABLE_TYPES == {"MessageMediaPhoto", "MessageMediaDocument"}
NON_DOWNLOADABLE_TYPES ==
    {"MessageMediaContact", "MessageMediaGeo", "MessageMediaWebPage", "MessageMediaPoll"}

\* is_downloadable: isinstance(message.media, DOWNLOADABLE_TYPES)
is_downloadable(m) ==
    IF m.cls = "None" THEN FALSE ELSE m.cls \in DOWNLOADABLE_TYPES

\* for size in reversed(sizes): if hasattr(size, 'size'): return size.size
RECURSIVE LastWithSize(_)
LastWithSize(sizes) ==
    IF sizes = <<>> THEN None
    ELSE IF ~IsNone(sizes[Len(sizes)]) THEN sizes[Len(sizes)]
    ELSE LastWithSize(SubSeq(sizes, 1, Len(sizes) - 1))

get_media_size(m) ==
    IF m.cls = "None" THEN None
    ELSE IF m.cls = "MessageMediaPhoto" THEN LastWithSize(m.sizes)
    ELSE IF m.cls = "MessageMediaDocument" /\ m.document THEN Some(m.doc_size)
    ELSE None

\* The documents of the model carry no mime_type of their own (None), for
\* which the code returns the default.
get_mime_type(m) ==
    IF m.cls = "MessageMediaPhoto" THEN "image/jpeg" ELSE "application/octet-stream"

\* The loop over media.document.attributes: the first attribute that names a
\* type decides; "document" when none does.
RECURSIVE AttrType(_)
AttrType(attrs) ==
    IF attrs = <<>> THEN "document"
    ELSE IF Head(attrs) = "DocumentAttributeVideo" THEN "video"
    ELSE IF Head(attrs) = "DocumentAttributeAudioVoice" THEN "voice"
    ELSE IF Head(attrs) = "DocumentAttributeAudio" THEN "audio"
    ELSE IF Head(attrs) = "DocumentAttributeSticker" THEN "sticker"
    ELSE IF Head(attrs) = "DocumentAttributeAnimated" THEN "animation"
    ELSE AttrType(Tail(attrs))

get_media_type(m) ==
    IF m.cls = "None" THEN "unknown"
    ELSE IF m.cls = "MessageMediaPhoto" THEN "photo"
    ELSE IF m.cls = "MessageMediaDocument" /\ m.document THEN AttrType(m.attrs)
    ELSE "unknown"

is_type_enabled(c, m) == get_media_type(m) \in c.DOWNLOAD_MEDIA_TYPES

\* A result of process_media.  present = FALSE is Python's None (no media).
\* base64 holds the length of the encoded text.  Three fields record what the
\* call did: fetched, that client.download_media was called; fetch_exc, that
\* download_media raised; raised, that an exception left process_media.
NoResult ==
    [present |-> FALSE, type |-> "unknown", mime_type |-> "", size |-> None,
     base64 |-> None, skipped |-> FALSE, violation |-> "none", fetched |-> FALSE,
     fetch_exc |-> FALSE, raised |-> FALSE]

\* base64.b64encode(bytes): 4 characters for every 3 bytes, padded.
b64encode_len(n) == 4 * ((n + 2) \div 3)

_build_skipped_result(m, violation_type, fetched) ==
    [present |-> TRUE, type |-> get_media_type(m), mime_type |-> get_mime_type(m),
     size |-> get_media_size(m), base64 |-> None, skipped |-> TRUE,
     violation |-> violation_type, fetched |-> fetched, fetch_exc |-> fetched,
     raised |-> FALSE]

\* The dict the try block builds after download_media returned fetch_len bytes.
downloaded_result(m) ==
    [present |-> TRUE, type |-> get_media_type(m), mime_type |-> get_mime_type(m),
     size |-> Some(m.fetch_len), base64 |-> Some(b64encode_len(m.fetch_len)),
     skipped |-> FALSE, violation |-> "none", fetched |-> TRUE, fetch_exc |-> FALSE,
     raised |-> FALSE]

\* An exception that propagates out of process_media.
Propagated(m) ==
    [present |-> TRUE, type |-> get_media_type(m), mime_type |-> get_mime_type(m),
     size |-> get_media_size(m), base64 |-> None, skipped |-> FALSE,
     violation |-> "none", fetched |-> TRUE, fetch_exc |-> TRUE, raised |-> TRUE]

\* Mutant: the try block without its "except Exception" handler.
download_no_except(m) ==
    IF m.fetch = "raises" THEN Propagated(m)
    ELSE downloaded_result(m)

\* try: download_media, b64encode, build result / except Exception: skipped result
download(m) ==
    IF m.fetch = "raises" THEN _build_skipped_result(m, "download_error", TRUE)
    ELSE downloaded_result(m)

max_size_bytes(c) == c.MAX_MEDIA_SIZE * 1024 * 1024

\* Mutant: ">=" for ">" in the size check.
size_over_limit_ge(c, size) ==
    /\ ~IsNone(size)
    /\ size[1] # 0
    /\ size[1] >= max_size_bytes(c)

\* "if size and size > max_size_bytes": None and 0 are falsy.
size_over_limit(c, size) ==
    /\ ~IsNone(size)
    /\ size[1] # 0
    /\ size[1] > max_size_bytes(c)

\* Mutant: the allow-list check placed before the downloadable check.
process_media_swapped(c, m) ==
    IF m.cls = "None" THEN NoResult
    ELSE IF ~c.ENABLE_MEDIA_DOWNLOAD THEN _build_skipped_result(m, "download_disabled", FALSE)
    ELSE IF ~is_type_enabled(c, m) THEN _build_skipped_result(m, "type_not_enabled", FALSE)
    ELSE IF ~is_downloadable(m) THEN _build_skipped_result(m, "not_downloadable", FALSE)
    ELSE IF size_over_limit(c, get_media_size(m))
         THEN _build_skipped_result(m, "size_exceeded", FALSE)
    ELSE download(m)

process_media(c, m) ==
    IF m.cls = "None" THEN NoResult
    ELSE IF ~c.ENABLE_MEDIA_DOWNLOAD THEN _build_skipped_result(m, "download_disabled", FALSE)
    ELSE IF ~is_downloadable(m) THEN _build_skipped_result(m, "not_downloadable", FALSE)
    ELSE IF ~is_type_enabled(c, m) THEN _build_skipped_result(m, "type_not_enabled", FALSE)
    ELSE IF size_over_limit(c, get_media_size(m))
         THEN _build_skipped_result(m, "size_exceeded", FALSE)
    ELSE download(m)

(***************************************************************************)
(* SpecMedia: one call of process_media on any configuration and message   *)
(***************************************************************************)
SizeValues == {0, 1, MAX_MEDIA_SIZE * MB - 1, MAX_MEDIA_SIZE * MB, MAX_MEDIA_SIZE * MB + 1,
               (MAX_MEDIA_SIZE + 1) * MB}

PhotoSizeLists ==
    {<<>>, <<None>>, <<Some(1)>>, <<Some((MAX_MEDIA_SIZE + 1) * MB), None>>,
     <<Some(1), Some((MAX_MEDIA_SIZE + 1) * MB)>>, <<Some((MAX_MEDIA_SIZE + 1) * MB), Some(1)>>,
     <<Some(MAX_MEDIA_SIZE * MB)>>}

\* DocumentAttributeAudioVoice stands for a DocumentAttributeAudio with voice set.
AttrLists ==
    {<<>>, <<"DocumentAttributeFilename">>, <<"DocumentAttributeFilename", "DocumentAttributeVideo">>,
     <<"DocumentAttributeAudio">>, <<"DocumentAttributeAudioVoice">>,
     <<"DocumentAttributeSticker">>, <<"DocumentAttributeAnimated", "DocumentAttributeVideo">>}

\* What client.download_media can do: raise, or write some number of bytes
\* (which need not be the size the message announced).
FetchOutcomes ==
    {<<"raises", 0>>, <<"ok", 1>>, <<"ok", (MAX_MEDIA_SIZE + 1) * MB>>}

MediaInputs ==
    {NoMedia}
    \cup {Photo(s, f[1], f[2]) : s \in PhotoSizeLists, f \in FetchOutcomes}
    \cup {Document(TRUE, z, a, f[1], f[2]) : z \in SizeValues, a \in AttrLists, f \in FetchOutcomes}
    \cup {Document(FALSE, 0, <<>>, f[1], f[2]) : f \in FetchOutcomes}
    \cup {OtherMedia(c) : c \in NON_DOWNLOADABLE_TYPES \cup {"MessageMediaDice"}}

(***************************************************************************)
(* Spec: TelegramUserClient (telegramlistener.py)                          *)
(*                                                                         *)
(* The asyncio event loop runs single threaded: a step of a task is atomic *)
(* up to its next await.  Time advances in whole units (Tick).  A task     *)
(* that is ready to run (cancelled, or whose sleep has elapsed) runs       *)
(* before the clock advances; a task awaiting the network (media download, *)
(* chat lookup, webhook POST, session close, disconnect) may take any      *)
(* time.  A sleeping timer keeps the time left until it is due; `since`    *)
(* measures, per group, the time since its latest message, saturating      *)
(* above MEDIA_GROUP_TIMEOUT.                                              *)
(***************************************************************************)
MaxMsgs == 2

\* Time is counted in ticks.  Config.MEDIA_GROUP_TIMEOUT is a number of seconds
\* read from the environment (5.0 by default); it lasts TicksPerTimeout ticks.
TicksPerTimeout == 2
MEDIA_GROUP_TIMEOUT == TicksPerTimeout

MsgIds == 1..MaxMsgs

\* str(message.grouped_id) of the albums; NoGroup is a message without grouped_id.
Groups == {"g1", "g2"}
NoGroup == ""

\* Longer than the timeout: where the `since` clocks saturate.
Over == MEDIA_GROUP_TIMEOUT + 1

\* Media of the messages the listener receives.
ListenerMedia == {NoMedia, Photo(<<Some(1)>>, "ok", 1)}

\* Media of the messages of an album: none, a photo, a location (which
\* cannot be downloaded).
FlushMedia == ListenerMedia \cup {OtherMedia("MessageMediaGeo")}

\* What client.download_media does when the listener calls it.
ListenerFetch == {<<"ok", 1>>, <<"raises", 0>>}

\* MediaGroupBuffer(): messages = [], timer_task = None (0).
\* exists = FALSE stands for a key that is not in media_group_buffers.
NoBuffer == [exists |-> FALSE, messages |-> <<>>, timer_task |-> 0]
MediaGroupBuffer == [exists |-> TRUE, messages |-> <<>>, timer_task |-> 0]

\* An asyncio task of the listener: the debounce timer of a group
\* (_process_media_group_after_timeout) or the handler of an ungrouped message
\* (on_new_message -> _process_single_message).  Task i is the one message i
\* created.
\*   pc: "sleeping" in asyncio.sleep(MEDIA_GROUP_TIMEOUT), due in `remaining`;
\*                  at remaining = 0 the sleep has elapsed and the task resumes
\*                  at its next step
\*       "media"    in process_media of messages[idx], awaiting download_media
\*       "send"     awaiting build_payload, about to call callback_service.send
\*       "done"
\*   must_cancel: cancel() was called and the CancelledError is not yet delivered
\*   flushed: the task popped a buffer; failed: an exception ended it
\*   stop_cancelled: stop() called cancel() on the task
NoTask ==
    [kind |-> "none", pc |-> "done", group_id |-> NoGroup, remaining |-> 0,
     must_cancel |-> FALSE, messages |-> <<>>, idx |-> 0, media_files |-> <<>>,
     flushed |-> FALSE, failed |-> FALSE, stop_cancelled |-> FALSE]

\* Mutant: the timer does not wait (sleep(0)).
TimerTask_nosleep(g) ==
    [kind |-> "timer", pc |-> "sleeping", group_id |-> g, remaining |-> 0,
     must_cancel |-> FALSE, messages |-> <<>>, idx |-> 0, media_files |-> <<>>,
     flushed |-> FALSE, failed |-> FALSE, stop_cancelled |-> FALSE]

\* Mutant: the timer sleeps longer than the configured timeout.
TimerTask_longsleep(g) ==
    [kind |-> "timer", pc |-> "sleeping", group_id |-> g, remaining |-> MEDIA_GROUP_TIMEOUT + 2,
     must_cancel |-> FALSE, messages |-> <<>>, idx |-> 0, media_files |-> <<>>,
     flushed |-> FALSE, failed |-> FALSE, stop_cancelled |-> FALSE]

\* Mutant: a fixed window: the new timer only waits for what was left of the
\* timer it replaces.
TimerTask_fixedwindow(g) ==
    [kind |-> "timer", pc |-> "sleeping", group_id |-> g,
     remaining |-> IF media_group_buffers[g].exists /\ media_group_buffers[g].timer_task # 0
                   THEN tasks[media_group_buffers[g].timer_task].remaining
                   ELSE MEDIA_GROUP_TIMEOUT,
     must_cancel |-> FALSE, messages |-> <<>>, idx |-> 0, media_files |-> <<>>,
     flushed |-> FALSE, failed |-> FALSE, stop_cancelled |-> FALSE]

\* asyncio.create_task(self._process_media_group_after_timeout(group_id))
TimerTask(g) ==
    [kind |-> "timer", pc |-> "sleeping", group_id |-> g, remaining |-> MEDIA_GROUP_TIMEOUT,
     must_cancel |-> FALSE, messages |-> <<>>, idx |-> 0, media_files |-> <<>>,
     flushed |-> FALSE, failed |-> FALSE, stop_cancelled |-> FALSE]

SingleTask(id) ==
    [kind |-> "single", pc |-> "media", group_id |-> NoGroup, remaining |-> 0,
     must_cancel |-> FALSE, messages |-> <<id>>, idx |-> 1, media_files |-> <<>>,
     flushed |-> FALSE, failed |-> FALSE, stop_cancelled |-> FALSE]

\* Mutant: a result that reports a policy violation is not collected.
RECURSIVE RunLoop_dropskipped(_, _)
RunLoop_dropskipped(t, arr) ==
    IF t.idx > Len(t.messages) THEN [t EXCEPT !.pc = "send"]
    ELSE LET media_data == process_media(cfg, arr[t.messages[t.idx]].media)
         IN  IF media_data.fetched THEN [t EXCEPT !.pc = "media"]
             ELSE RunLoop_dropskipped([t EXCEPT !.idx = @ + 1], arr)

\* process_media suspends only in "await client.download_media": a call that
\* returns before it (no media, or a policy violation) is part of the step
\* that makes it.  RunLoop runs "for msg in messages" of task t from t.idx up
\* to the first call that awaits a download, or through the end of the list to
\* the await in build_payload ("send"); arr is the list of arrival records.
RECURSIVE RunLoop(_, _)
RunLoop(t, arr) ==
    IF t.idx > Len(t.messages) THEN [t EXCEPT !.pc = "send"]
    ELSE LET media_data == process_media(cfg, arr[t.messages[t.idx]].media)
         IN  IF media_data.fetched THEN [t EXCEPT !.pc = "media"]
             ELSE RunLoop([t EXCEPT !.idx = @ + 1,
                                    !.media_files = IF media_data.present
                                                    THEN Append(@, media_data) ELSE @],
                          arr)

\* Task.done()
Done(t) == t.pc = "done"

\* Mutant: the pending timer is left running when a message is appended.
CancelTask_noop(ts, i) == ts

\* "if timer_task and not timer_task.done(): timer_task.cancel()": the
\* CancelledError is delivered at the task's next step.
CancelTask(ts, i) ==
    IF i # 0 /\ ~Done(ts[i]) THEN [ts EXCEPT ![i].must_cancel = TRUE] ELSE ts

\* Mutant: the buffer is read but left in the map.
PopBuffer_keep(bufs, g) == bufs

\* Mutant: the flush empties the whole map (media_group_buffers.clear()).
PopBuffer_clear(bufs, g) == [h \in DOMAIN bufs |-> NoBuffer]

\* self.media_group_buffers.pop(group_id)
PopBuffer(bufs, g) == [bufs EXCEPT ![g] = NoBuffer]

\* get_media_info's loop over media.document.attributes: every attribute that
\* names a type overwrites info["type"], so the last one decides.
RECURSIVE InfoType(_, _)
InfoType(attrs, type) ==
    IF attrs = <<>> THEN type
    ELSE InfoType(Tail(attrs),
                  IF Head(attrs) = "DocumentAttributeVideo" THEN "video"
                  ELSE IF Head(attrs) = "DocumentAttributeAudioVoice" THEN "voice"
                  ELSE IF Head(attrs) = "DocumentAttributeAudio" THEN "audio"
                  ELSE IF Head(attrs) = "DocumentAttributeSticker" THEN "sticker"
                  ELSE IF Head(attrs) = "DocumentAttributeAnimated" THEN "animation"
                  ELSE type)

\* MessageService.get_media_info(message)["type"], None for no media.
media_info(m) ==
    IF m.cls = "None" THEN None
    ELSE IF m.cls = "MessageMediaPhoto" THEN Some("photo")
    ELSE IF m.cls = "MessageMediaDocument" THEN Some(IF m.document THEN InfoType(m.attrs, "document") ELSE "document")
    ELSE IF m.cls = "MessageMediaWebPage" THEN Some("webpage")
    ELSE IF m.cls = "MessageMediaGeo" THEN Some("location")
    ELSE IF m.cls = "MessageMediaContact" THEN Some("contact")
    ELSE IF m.cls = "MessageMediaPoll" THEN Some("poll")
    ELSE Some("unknown")

\* Mutant: the payload carries a "media_files" key even for an empty list.
build_payload_always_list(id, media_files, is_media_group, media_group_id, group_msgs) ==
    [message_id |-> id,
     media |-> media_info(arrived[id].media),
     has_media_files |-> TRUE,
     media_files |-> media_files,
     is_media_group |-> is_media_group,
     media_group_id |-> media_group_id,
     media_group_messages |->
         [k \in 1..Len(group_msgs) |->
             [message_id |-> group_msgs[k], media |-> media_info(arrived[group_msgs[k]].media)]]]

\* MessageService.build_payload, and for a group the media_group_messages the
\* flush adds to it.  "media_files" is a key of the payload only when the
\* list is not empty (has_media_files).
build_payload(id, media_files, is_media_group, media_group_id, group_msgs) ==
    [message_id |-> id,
     media |-> media_info(arrived[id].media),
     has_media_files |-> media_files # <<>>,
     media_files |-> media_files,
     is_media_group |-> is_media_group,
     media_group_id |-> media_group_id,
     media_group_messages |->
         [k \in 1..Len(group_msgs) |->
             [message_id |-> group_msgs[k], media |-> media_info(arrived[group_msgs[k]].media)]]]

(***************************************************************************)
(* CallbackService.start and stop.  A call is a record of lifecycle:        *)
(*   op       "start" or "stop"                                             *)
(*   created  the ClientSession the call created (sessions are numbered in  *)
(*            the order of their creation; 0: none)                         *)
(*   closed   the ClientSession the call closed (0: none)                   *)
(*   raised   an exception left the call                                    *)
(* http_session refers to the session created last, if to any.             *)
(***************************************************************************)
\* The sessions created so far.
Created(log) == {log[k].created : k \in 1..Len(log)} \ {0}

\* self.http_session = aiohttp.ClientSession()
StartCall(log) ==
    [op |-> "start", created |-> Cardinality(Created(log)) + 1, closed |-> 0, raised |-> FALSE]

\* Mutant: stop() without its "if self.http_session": None has no close().
StopChecksSession_never(session) == TRUE

\* "if self.http_session:"
StopChecksSession(session) == session # "none"

\* CallbackService.stop(): closes the session http_session refers to.
StopCall(log, session) ==
    IF ~StopChecksSession(session)
    THEN [op |-> "stop", created |-> 0, closed |-> 0, raised |-> FALSE]
    ELSE IF session = "none"
    THEN [op |-> "stop", created |-> 0, closed |-> 0, raised |-> TRUE]
    ELSE [op |-> "stop", created |-> 0, closed |-> Cardinality(Created(log)), raised |-> FALSE]

ListenerInit ==
    /\ since = [g \in Groups |-> 0]
    /\ arrived = <<>>
    /\ media_group_buffers = [g \in Groups |-> NoBuffer]
    /\ tasks = [i \in MsgIds |-> NoTask]
    /\ sendCalls = <<>>
    /\ http_session = "none"
    /\ clientPc = "init"
    /\ lifecycle = <<>>

\* TelegramUserClient.start: callback_service.start() opens the HTTP session,
\* the handler is registered and the client connects.
ClientStart ==
    /\ clientPc = "init"
    /\ http_session' = "open"
    /\ lifecycle' = Append(lifecycle, StartCall(lifecycle))
    /\ clientPc' = "running"
    /\ UNCHANGED <<since, arrived, media_group_buffers, tasks, sendCalls>>
    /\ UNCHANGED <<cfg, mediaVars, typingVars>>

\* The transport delivers events from start() until disconnect() has returned.
Connected == clientPc \in {"running", "closing", "disconnecting"}

\* _handle_media_group_message: no await, so one atomic step.
_handle_media_group_message(id, g) ==
    LET buf0 == IF media_group_buffers[g].exists THEN media_group_buffers[g]
                ELSE MediaGroupBuffer
        buf1 == [buf0 EXCEPT !.messages = Append(@, id)]
        cancelled == CancelTask(tasks, buf1.timer_task)
    IN  /\ media_group_buffers' =
               [media_group_buffers EXCEPT ![g] = [buf1 EXCEPT !.timer_task = id]]
        /\ tasks' = [cancelled EXCEPT ![id] = TimerTask(g)]

\* Messages of group g that have arrived.
GroupArrivals(g) == SelectSeq(arrived, LAMBDA a : a.grouped_id = g)

\* Group keys are arbitrary and interchangeable: the first album to appear is
\* called "g1", the next new one "g2".
SeenGroups == {g \in Groups : GroupArrivals(g) # <<>>}
NextGroup == IF SeenGroups = {} THEN "g1" ELSE "g2"

\* How a time t since the previous message compares with the timeout.
GapClass(t) ==
    IF t = 0 THEN "none"
    ELSE IF t < MEDIA_GROUP_TIMEOUT THEN "shorter"
    ELSE IF t = MEDIA_GROUP_TIMEOUT THEN "equal"
    ELSE "longer"

\* on_new_message: a new incoming message with grouped_id g (NoGroup: none).
\* The record kept of it notes how the time since the previous message of
\* its group compares with the timeout (gap; first for the group's first
\* message) and whether a flush of its group was in progress (during_flush).
NewMessage(g, media) ==
    /\ Connected
    /\ Len(arrived) < MaxMsgs
    /\ LET id == Len(arrived) + 1
       IN  /\ arrived' = Append(arrived,
                  [id |-> id, grouped_id |-> g, media |-> media,
                   first |-> (g = NoGroup \/ GroupArrivals(g) = <<>>),
                   during_flush |-> \E i \in MsgIds : /\ tasks[i].kind = "timer"
                                                       /\ tasks[i].group_id = g
                                                       /\ tasks[i].pc \in {"media", "send"},
                   gap |-> IF g = NoGroup THEN "none" ELSE GapClass(since[g])])
           /\ IF g # NoGroup
              THEN /\ _handle_media_group_message(id, g)
                   /\ since' = [since EXCEPT ![g] = 0]
              ELSE /\ tasks' = [tasks EXCEPT ![id] = RunLoop(SingleTask(id), arrived')]
                   /\ UNCHANGED <<media_group_buffers, since>>
    /\ UNCHANGED <<sendCalls, http_session, clientPc>>
    /\ UNCHANGED <<cfg, lifecycle, mediaVars, typingVars>>

\* A cancelled timer task runs: CancelledError is thrown into it (at the
\* sleep, or in place of the result of a sleep that had elapsed) and
\* "except asyncio.CancelledError: pass" ends it.
TimerCancelled(i) ==
    /\ tasks[i].kind = "timer"
    /\ tasks[i].pc = "sleeping"
    /\ tasks[i].must_cancel
    /\ tasks' = [tasks EXCEPT ![i].pc = "done", ![i].must_cancel = FALSE]
    /\ UNCHANGED <<since, arrived, media_group_buffers, sendCalls, http_session, clientPc>>
    /\ UNCHANGED <<cfg, lifecycle, mediaVars, typingVars>>

\* The sleep has elapsed, the task resumes and _process_media_group runs up to
\* its first await.
_process_media_group(i) ==
    LET g == tasks[i].group_id
        buffer == media_group_buffers[g]
    IN  /\ tasks[i].kind = "timer"
        /\ tasks[i].pc = "sleeping"
        /\ ~tasks[i].must_cancel
        /\ tasks[i].remaining = 0
        /\ IF ~buffer.exists \/ buffer.messages = <<>>
           THEN /\ tasks' = [tasks EXCEPT ![i].pc = "done"]
                /\ media_group_buffers' =
                       IF buffer.exists THEN PopBuffer(media_group_buffers, g)
                       ELSE media_group_buffers
           ELSE /\ media_group_buffers' = PopBuffer(media_group_buffers, g)
                /\ tasks' = [tasks EXCEPT ![i] =
                               RunLoop([@ EXCEPT !.messages = buffer.messages, !.idx = 1,
                                                 !.flushed = TRUE], arrived)]
        /\ UNCHANGED <<since, arrived, sendCalls, http_session, clientPc>>
        /\ UNCHANGED <<cfg, lifecycle, mediaVars, typingVars>>

\* The download_media call awaited by "media_data = await process_media(...)"
\* for messages[idx] ends the way f says, process_media returns and the loop
\* goes on to its next await.  An exception leaving process_media ends the
\* task without a payload: on_new_message logs it, a timer task dies with it.
ProcessMediaStep(i, f) ==
    LET t == tasks[i]
        msg == arrived[t.messages[t.idx]].media
        media_data == process_media(cfg, [msg EXCEPT !.fetch = f[1], !.fetch_len = f[2]])
        files == IF media_data.present THEN Append(t.media_files, media_data)
                 ELSE t.media_files
    IN  /\ t.kind \in {"timer", "single"}
        /\ t.pc = "media"
        /\ tasks' =
             IF media_data.raised
             THEN [tasks EXCEPT ![i].pc = "done", ![i].failed = TRUE]
             ELSE [tasks EXCEPT ![i] =
                      RunLoop([t EXCEPT !.media_files = files, !.idx = t.idx + 1], arrived)]
        /\ UNCHANGED <<since, arrived, media_group_buffers, sendCalls, http_session, clientPc>>
        /\ UNCHANGED <<cfg, lifecycle, mediaVars, typingVars>>

(***************************************************************************)
(* CallbackService.send (callback_service.py).  A call is a record of       *)
(* sendCalls:                                                               *)
(*   session   http_session when send was called (send returns False at     *)
(*             once when it is None)                                        *)
(*   pc        "post"     awaiting the response of the POST of iteration    *)
(*                        `attempt` of "for attempt in range(RETRIES)"      *)
(*             "backoff"  in asyncio.sleep(2 ** attempt)                    *)
(*             "returned"                                                   *)
(*   attempts  POST attempts made so far                                    *)
(*   failures  attempts that ended without a 200                            *)
(*   sleeps    the durations of the backoff sleeps started so far           *)
(*   answered  the latest finished attempt was answered with status 200     *)
(*   result    "pending", "true" or "false"; raised: an exception left send *)
(***************************************************************************)
\* What one POST attempt can end in: status 200, another status,
\* asyncio.TimeoutError, or any other exception (connection error, closed
\* session).
Outcomes == {"200", "non200", "timeout", "error"}

\* Mutant: send does not look at http_session before it posts.
SessionMissing_unchecked(session) == FALSE

\* "if not self.http_session"
SessionMissing(session) == session = "none"

\* Mutant: only the timeout is caught; other exceptions leave send.
AttemptResult_uncaught(outcome) ==
    IF outcome = "200" THEN "return_true"
    ELSE IF outcome = "error" THEN "raise"
    ELSE "retry"

\* The try block of one iteration: "return True" on status 200; any other
\* status is logged, TimeoutError and Exception are caught and logged.
AttemptResult(outcome) == IF outcome = "200" THEN "return_true" ELSE "retry"

\* Mutant: send sleeps after every failed attempt, the last one too.
NeedsBackoff_always(attempt, retries) == TRUE

\* "if attempt < Config.CALLBACK_RETRIES - 1"
NeedsBackoff(attempt, retries) == attempt < retries - 1

\* Mutant: a constant delay between attempts.
Backoff_constant(attempt) == 1

\* asyncio.sleep(2 ** attempt)
Backoff(attempt) == 2 ^ attempt

\* callback_service.send(payload) up to its first await: False at once
\* without a session or with an empty range(CALLBACK_RETRIES), else the
\* first POST is made.
NewSend(payload, task, session, retries) ==
    LET returns == SessionMissing(session) \/ retries <= 0
    IN  [payload |-> payload, task |-> task, session |-> session,
         pc |-> IF returns THEN "returned" ELSE "post",
         attempt |-> 0, attempts |-> IF returns THEN 0 ELSE 1, failures |-> 0,
         sleeps |-> <<>>, answered |-> FALSE,
         result |-> IF returns THEN "false" ELSE "pending", raised |-> FALSE]

\* The POST of iteration c.attempt ends in outcome.
AfterAttempt(c, outcome, retries) ==
    IF AttemptResult(outcome) = "return_true"
    THEN [c EXCEPT !.pc = "returned", !.answered = (outcome = "200"), !.result = "true"]
    ELSE IF AttemptResult(outcome) = "raise"
    THEN [c EXCEPT !.pc = "returned", !.answered = (outcome = "200"), !.failures = @ + 1,
                   !.raised = TRUE]
    ELSE IF NeedsBackoff(c.attempt, retries)
    THEN [c EXCEPT !.pc = "backoff", !.answered = (outcome = "200"), !.failures = @ + 1,
                   !.sleeps = Append(@, Backoff(c.attempt))]
    ELSE IF c.attempt + 1 < retries
    THEN [c EXCEPT !.pc = "post", !.answered = (outcome = "200"), !.failures = @ + 1,
                   !.attempt = @ + 1, !.attempts = @ + 1]
    ELSE [c EXCEPT !.pc = "returned", !.answered = (outcome = "200"), !.failures = @ + 1,
                   !.result = "false"]

\* build_payload returns and callback_service.send(payload) is called.  The
\* task has nothing left to do but await send, whose result it ignores: it
\* counts as done, and the call record carries the rest of send.
SendPayload(i) ==
    LET t == tasks[i]
        payload ==
            IF t.kind = "timer"
            THEN build_payload(t.messages[1], t.media_files, TRUE, t.group_id, t.messages)
            ELSE build_payload(t.messages[1], t.media_files, FALSE, NoGroup, <<>>)
    IN  /\ t.kind \in {"timer", "single"}
        /\ t.pc = "send"
        /\ sendCalls' = Append(sendCalls,
                               NewSend(payload, i, http_session, cfg.CALLBACK_RETRIES))
        /\ tasks' = [tasks EXCEPT ![i].pc = "done"]
        /\ UNCHANGED <<since, arrived, media_group_buffers, http_session, clientPc>>
        /\ UNCHANGED <<cfg, lifecycle, mediaVars, typingVars>>

\* TelegramUserClient.stop, up to its first await: cancel the pending timers,
\* then callback_service.stop() starts closing the session.
StopCancelTimers ==
    /\ clientPc = "running"
    /\ tasks' = [i \in MsgIds |->
                   IF \E g \in Groups : /\ media_group_buffers[g].exists
                                        /\ media_group_buffers[g].timer_task = i
                                        /\ ~Done(tasks[i])
                   THEN [tasks[i] EXCEPT !.must_cancel = TRUE, !.stop_cancelled = TRUE]
                   ELSE tasks[i]]
    /\ http_session' = IF http_session = "open" THEN "closed" ELSE http_session
    /\ lifecycle' = Append(lifecycle, StopCall(lifecycle, http_session))
    /\ clientPc' = "closing"
    /\ UNCHANGED <<since, arrived, media_group_buffers, sendCalls>>
    /\ UNCHANGED <<cfg, mediaVars, typingVars>>

\* http_session.close() returns: http_session = None; client.disconnect() starts.
StopSessionClosed ==
    /\ clientPc = "closing"
    /\ http_session' = "none"
    /\ clientPc' = "disconnecting"
    /\ UNCHANGED <<since, arrived, media_group_buffers, tasks, sendCalls>>
    /\ UNCHANGED <<cfg, lifecycle, mediaVars, typingVars>>

\* client.disconnect() returns: no further event is delivered.
StopDisconnected ==
    /\ clientPc = "disconnecting"
    /\ clientPc' = "stopped"
    /\ UNCHANGED <<since, arrived, media_group_buffers, tasks, sendCalls, http_session>>
    /\ UNCHANGED <<cfg, lifecycle, mediaVars, typingVars>>

\* The response of the POST awaited by call k arrives, or the POST raises.
\* Without an open session the POST can only raise: a closed ClientSession
\* refuses the request, and None has no post().
SendResponse(k, outcome) ==
    /\ k \in 1..Len(sendCalls)
    /\ sendCalls[k].pc = "post"
    /\ http_session # "open" => outcome = "error"
    /\ sendCalls' = [sendCalls EXCEPT ![k] = AfterAttempt(@, outcome, cfg.CALLBACK_RETRIES)]
    /\ UNCHANGED <<since, arrived, media_group_buffers, tasks, http_session, clientPc>>
    /\ UNCHANGED <<cfg, lifecycle, mediaVars, typingVars>>

\* The backoff sleep of call k ends: the loop makes its next POST, or ends
\* and send returns False.
SendBackoffDone(k) ==
    /\ k \in 1..Len(sendCalls)
    /\ sendCalls[k].pc = "backoff"
    /\ sendCalls' = [sendCalls EXCEPT ![k] =
           IF @.attempt + 1 < cfg.CALLBACK_RETRIES
           THEN [@ EXCEPT !.pc = "post", !.attempt = @ + 1, !.attempts = @ + 1]
           ELSE [@ EXCEPT !.pc = "returned", !.result = "false"]]
    /\ UNCHANGED <<since, arrived, media_group_buffers, tasks, http_session, clientPc>>
    /\ UNCHANGED <<cfg, lifecycle, mediaVars, typingVars>>

\* A payload that does not come from a message of the listener.
AnyPayload ==
    [message_id |-> 0, media |-> None, has_media_files |-> FALSE, media_files |-> <<>>,
     is_media_group |-> FALSE, media_group_id |-> NoGroup, media_group_messages |-> <<>>]

\* callback_service.send(payload) called on a dispatcher that was never
\* started.  (The handlers of the listener call it from start() on, through
\* stop() and until the transport is disconnected.)
DirectSends == Len(SelectSeq(sendCalls, LAMBDA c : c.task = 0))

DirectSend ==
    /\ clientPc = "init"
    /\ Len(arrived) + DirectSends < MaxMsgs
    /\ sendCalls' = Append(sendCalls, NewSend(AnyPayload, 0, http_session, cfg.CALLBACK_RETRIES))
    /\ UNCHANGED <<since, arrived, media_group_buffers, tasks, http_session, clientPc>>
    /\ UNCHANGED <<cfg, lifecycle, mediaVars, typingVars>>

\* Mutant: on_new_message without its try/except: the exception reaches the
\* event stream.
HandlerException_propagates(pc) == "crashed"

\* on_new_message's "except Exception as e: logger.error(...)": the handler
\* returns normally and the client goes on as it was.
HandlerException(pc) == pc

\* build_payload raises in the handler of an ungrouped message (get_chat_info
\* and get_sender_info ask the network): _process_single_message ends without
\* calling send and the exception arrives in on_new_message.
BuildPayloadRaises(i) ==
    /\ tasks[i].kind = "single"
    /\ tasks[i].pc = "send"
    /\ tasks' = [tasks EXCEPT ![i].pc = "done", ![i].failed = TRUE]
    /\ clientPc' = HandlerException(clientPc)
    /\ UNCHANGED <<since, arrived, media_group_buffers, sendCalls, http_session>>
    /\ UNCHANGED <<cfg, lifecycle, mediaVars, typingVars>>

\* A task the event loop runs without waiting for anything.
Runnable(t) ==
    /\ t.kind = "timer"
    /\ t.pc = "sleeping"
    /\ t.must_cancel \/ t.remaining = 0

\* One unit of time passes.
Tick ==
    /\ \A i \in MsgIds : ~Runnable(tasks[i])
    /\ \E i \in MsgIds : tasks[i].pc = "sleeping"
    /\ tasks' = [i \in MsgIds |->
                   IF tasks[i].pc = "sleeping"
                   THEN [tasks[i] EXCEPT !.remaining = @ - 1]
                   ELSE tasks[i]]
    /\ since' = [g \in Groups |->
                   IF GroupArrivals(g) # <<>> /\ since[g] < Over THEN since[g] + 1
                   ELSE since[g]]
    /\ UNCHANGED <<arrived, media_group_buffers, sendCalls, http_session, clientPc>>
    /\ UNCHANGED <<cfg, lifecycle, mediaVars, typingVars>>

\* Time passes while no timer is pending (only the `since` clocks move).
TickIdle ==
    /\ \A i \in MsgIds : tasks[i].pc # "sleeping"
    /\ \E g \in Groups : GroupArrivals(g) # <<>> /\ since[g] < Over
    /\ since' = [g \in Groups |->
                   IF GroupArrivals(g) # <<>> /\ since[g] < Over THEN since[g] + 1
                   ELSE since[g]]
    /\ UNCHANGED <<arrived, media_group_buffers, tasks, sendCalls, http_session, clientPc>>
    /\ UNCHANGED <<cfg, lifecycle, mediaVars, typingVars>>

(***************************************************************************)
(* SpecTyping: TypingService (typing_service.py) and the registry          *)
(* _typing_tasks of the sender router.                                     *)
(*                                                                         *)
(* start_typing has no await and is one atomic step.  cancel_typing        *)
(* suspends once, in "await client.action(chat_id, 'cancel')".  A typing   *)
(* task suspends in the "async with client.action(chat_id, 'typing')"      *)
(* block (entering it and sleeping) and in the finally block's             *)
(* "await client.action(chat_id, 'cancel')".  A signal counts as sent when *)
(* the call that sends it is made.                                         *)
(***************************************************************************)
\* Calls of start_typing and cancel_typing, together.
MaxCalls == 3

TaskIds == 1..MaxCalls

\* str(chat_id) of the chats typing is requested for.
Chats == {"c1", "c2"}

\* A typing task (_typing_task).
\*   pc: "none"     not created          "created"  created, not yet run
\*       "sleeping" inside the async with block
\*       "cleanup"  in finally, awaiting client.action(chat_id, "cancel")
\*       "done"
\*   must_cancel: cancel() was called and the CancelledError is not yet delivered
\*   cancel_requested: cancel() was ever called on the task
\*   sent_typing / sent_cancel: the task made the "typing" / "cancel" call
\*   cancel_failed: the finally block's "cancel" call raised
NoTypingTask ==
    [chat |-> "", pc |-> "none", must_cancel |-> FALSE, cancel_requested |-> FALSE,
     sent_typing |-> FALSE, sent_cancel |-> FALSE, cancel_failed |-> FALSE]

\* asyncio.create_task(TypingService._typing_task(...))
NewTypingTask(chat) ==
    [chat |-> chat, pc |-> "created", must_cancel |-> FALSE, cancel_requested |-> FALSE,
     sent_typing |-> FALSE, sent_cancel |-> FALSE, cancel_failed |-> FALSE]

\* Task.done()
TypingDone(t) == t.pc \in {"none", "done"}

\* A typing task that exists and has not terminated.
Live(t) == t.pc \in {"created", "sleeping", "cleanup"}

\* Mutant: an entry counts whenever the registry has one, finished or not.
HasEntry(reg, ts, key) == reg[key] # 0

\* "existing and not existing.done()"
IsLiveEntry(reg, ts, key) == reg[key] # 0 /\ ~TypingDone(ts[reg[key]])

\* existing.cancel()
CancelTyping(ts, i) ==
    [ts EXCEPT ![i].must_cancel = TRUE, ![i].cancel_requested = TRUE]

\* The signal the transport received last for each chat, and who sent it
\* (a task id, or 0 for cancel_typing).
Signal(sigs, chat, action, by) == [sigs EXCEPT ![chat] = [last |-> action, by |-> by]]

\* Mutant: cancel_typing signals the transport only when it cancelled a task.
BestEffortCancel_iffound(sigs, chat, cancelled_task) ==
    IF cancelled_task THEN Signal(sigs, chat, "cancel", 0) ELSE sigs

\* cancel_typing's "await client.action(chat_id, 'cancel')", made whether or
\* not a task was cancelled.
BestEffortCancel(sigs, chat, cancelled_task) == Signal(sigs, chat, "cancel", 0)

TypingInit ==
    /\ registry = [c \in Chats |-> 0]
    /\ ttasks = [i \in TaskIds |-> NoTypingTask]
    /\ signals = [c \in Chats |-> [last |-> "none", by |-> 0]]
    /\ cancelCalls = <<>>

TypingCreated == {i \in TaskIds : ttasks[i].pc # "none"}

CallsMade == Cardinality(TypingCreated) + Len(cancelCalls)

\* Chat ids are arbitrary and interchangeable: the first chat a call names is
\* called "c1", the next new one "c2".
SeenChats ==
    {ttasks[i].chat : i \in TypingCreated} \cup {cancelCalls[k].chat : k \in 1..Len(cancelCalls)}
NextChat == IF SeenChats = {} THEN "c1" ELSE "c2"

\* TypingService.start_typing(chat_id, duration_seconds)
start_typing(chat) ==
    /\ CallsMade < MaxCalls
    /\ LET chat_key == chat
           task == Cardinality(TypingCreated) + 1
           cancelled == IF IsLiveEntry(registry, ttasks, chat_key)
                        THEN CancelTyping(ttasks, registry[chat_key])
                        ELSE ttasks
       IN  /\ ttasks' = [cancelled EXCEPT ![task] = NewTypingTask(chat)]
           /\ registry' = [registry EXCEPT ![chat_key] = task]
    /\ UNCHANGED <<signals, cancelCalls>>
    /\ UNCHANGED <<cfg, lifecycle, mediaVars, listenerVars>>

\* TypingService.cancel_typing(chat_id), up to its await: the call is recorded
\* with the entry it found (target), whether that entry was live (was_live)
\* and the flag it will return (cancelled_task).
cancel_typing_call(chat) ==
    /\ CallsMade < MaxCalls
    /\ LET chat_key == chat
           found == IsLiveEntry(registry, ttasks, chat_key)
       IN  /\ ttasks' = IF found THEN CancelTyping(ttasks, registry[chat_key]) ELSE ttasks
           /\ signals' = BestEffortCancel(signals, chat, found)
           /\ cancelCalls' = Append(cancelCalls,
                  [chat |-> chat, target |-> registry[chat_key],
                   was_live |-> registry[chat_key] # 0 /\ Live(ttasks[registry[chat_key]]),
                   cancelled_task |-> found, pc |-> "await", signal_failed |-> FALSE])
    /\ UNCHANGED registry
    /\ UNCHANGED <<cfg, lifecycle, mediaVars, listenerVars>>

\* Mutant: no "except Exception" around the signal: its failure leaves the
\* block.
Swallowed_never(ok) == ok

\* "try: await client.action(chat_id, 'cancel') / except Exception": whether
\* the call returned (ok) or raised, execution goes on after the block.
Swallowed(ok) == TRUE

\* client.action(chat_id, "cancel") returns or raises (ok); an exception is
\* logged and cancel_typing returns cancelled_task.
cancel_typing_return(k, ok) ==
    /\ k \in 1..Len(cancelCalls)
    /\ cancelCalls[k].pc = "await"
    /\ cancelCalls' = [cancelCalls EXCEPT ![k].pc = IF Swallowed(ok) THEN "returned" ELSE "raised",
                                          ![k].signal_failed = ~ok]
    /\ UNCHANGED <<registry, ttasks, signals>>
    /\ UNCHANGED <<cfg, lifecycle, mediaVars, listenerVars>>

\* Mutant: the task goes back to sleep in place of leaving the typing block.
EnterFinally_resleep(t) == [t EXCEPT !.pc = "sleeping", !.sent_cancel = TRUE, !.must_cancel = FALSE]

\* The finally block up to its await: client.action(chat_id, "cancel") is called.
EnterFinally(t) == [t EXCEPT !.pc = "cleanup", !.sent_cancel = TRUE, !.must_cancel = FALSE]

\* First step of a typing task: it enters "async with client.action(chat_id,
\* 'typing')".  ok: the signal is sent and the task sleeps; otherwise the call
\* raises, "except Exception" logs it and the finally block starts.
TypingTaskStart(i, ok) ==
    /\ ttasks[i].pc = "created"
    /\ ~ttasks[i].must_cancel
    /\ IF ok
       THEN /\ ttasks' = [ttasks EXCEPT ![i].pc = "sleeping", ![i].sent_typing = TRUE]
            /\ signals' = Signal(signals, ttasks[i].chat, "typing", i)
       ELSE /\ ttasks' = [ttasks EXCEPT ![i] = EnterFinally(@)]
            /\ signals' = Signal(signals, ttasks[i].chat, "cancel", i)
    /\ UNCHANGED <<registry, cancelCalls>>
    /\ UNCHANGED <<cfg, lifecycle, mediaVars, listenerVars>>

\* asyncio.sleep(duration_seconds) returns, the async with block is left and
\* the finally block starts.
TypingSleepDone(i) ==
    /\ ttasks[i].pc = "sleeping"
    /\ ~ttasks[i].must_cancel
    /\ ttasks' = [ttasks EXCEPT ![i] = EnterFinally(@)]
    /\ signals' = Signal(signals, ttasks[i].chat, "cancel", i)
    /\ UNCHANGED <<registry, cancelCalls>>
    /\ UNCHANGED <<cfg, lifecycle, mediaVars, listenerVars>>

\* A cancelled typing task runs and CancelledError is thrown into it:
\*   before its first step, the coroutine never starts: no try, no finally;
\*   in the async with block, "except CancelledError: raise" and the finally
\*     block starts;
\*   at the finally block's await, "except Exception" does not catch it and it
\*     leaves the finally block before the registry cleanup.
TypingTaskCancelled(i) ==
    /\ Live(ttasks[i])
    /\ ttasks[i].must_cancel
    /\ IF ttasks[i].pc = "sleeping"
       THEN /\ ttasks' = [ttasks EXCEPT ![i] = EnterFinally(@)]
            /\ signals' = Signal(signals, ttasks[i].chat, "cancel", i)
       ELSE /\ ttasks' = [ttasks EXCEPT ![i].pc = "done", ![i].must_cancel = FALSE]
            /\ UNCHANGED signals
    /\ UNCHANGED <<registry, cancelCalls>>
    /\ UNCHANGED <<cfg, lifecycle, mediaVars, listenerVars>>

\* Mutant: the task pops its chat's entry without looking whose it is.
CleanupRegistry_unconditional(reg, chat_key, current_task) == [reg EXCEPT ![chat_key] = 0]

\* "if registry.get(chat_key) is current_task: registry.pop(chat_key, None)"
CleanupRegistry(reg, chat_key, current_task) ==
    IF reg[chat_key] = current_task THEN [reg EXCEPT ![chat_key] = 0] ELSE reg

\* The finally block's client.action(chat_id, "cancel") returns or raises
\* (swallowed); then the registry cleanup runs and the task ends.
TypingCleanupDone(i, ok) ==
    /\ ttasks[i].pc = "cleanup"
    /\ ~ttasks[i].must_cancel
    /\ ttasks' = [ttasks EXCEPT ![i].pc = "done", ![i].cancel_failed = ~ok]
    /\ registry' = IF Swallowed(ok) THEN CleanupRegistry(registry, ttasks[i].chat, i)
                   ELSE registry
    /\ UNCHANGED <<signals, cancelCalls>>
    /\ UNCHANGED <<cfg, lifecycle, mediaVars, listenerVars>>

(***************************************************************************)
(* Specifications                                                          *)
(***************************************************************************)
MediaIdle ==
    /\ mmsg = NoMedia
    /\ mres = NoResult
    /\ mpc = "idle"

Init ==
    /\ cfg = DefaultConfig
    /\ MediaIdle
    /\ TypingInit
    /\ ListenerInit

Next ==
    \/ ClientStart
    \/ \E g \in SeenGroups \cup {NextGroup, NoGroup}, media \in ListenerMedia :
           NewMessage(g, media)
    \/ \E i \in MsgIds : TimerCancelled(i)
    \/ \E i \in MsgIds : _process_media_group(i)
    \/ \E i \in MsgIds, f \in ListenerFetch : ProcessMediaStep(i, f)
    \/ \E i \in MsgIds : SendPayload(i)
    \/ StopCancelTimers
    \/ StopSessionClosed
    \/ StopDisconnected
    \/ Tick
    \/ TickIdle

Spec == Init /\ [][Next]_vars

\* ---- TypingService: any calls of start_typing and cancel_typing
InitTyping ==
    /\ cfg = DefaultConfig
    /\ MediaIdle
    /\ ListenerInit
    /\ TypingInit

NextTyping ==
    \/ \E c \in SeenChats \cup {NextChat} : start_typing(c)
    \/ \E c \in SeenChats \cup {NextChat} : cancel_typing_call(c)
    \/ \E k \in 1..MaxCalls, ok \in BOOLEAN : cancel_typing_return(k, ok)
    \/ \E i \in TaskIds, ok \in BOOLEAN : TypingTaskStart(i, ok)
    \/ \E i \in TaskIds : TypingSleepDone(i)
    \/ \E i \in TaskIds : TypingTaskCancelled(i)
    \/ \E i \in TaskIds, ok \in BOOLEAN : TypingCleanupDone(i, ok)

SpecTyping == InitTyping /\ [][NextTyping]_vars

\* ---- TypingService with the event loop running every task that is ready,
\* every sleep ending after its duration (at most 3600 s) and every
\* client.action call returning or raising
TypingFairness ==
    /\ \A i \in TaskIds : WF_vars(\E ok \in BOOLEAN : TypingTaskStart(i, ok))
    /\ \A i \in TaskIds : WF_vars(TypingSleepDone(i))
    /\ \A i \in TaskIds : WF_vars(TypingTaskCancelled(i))
    /\ \A i \in TaskIds : WF_vars(\E ok \in BOOLEAN : TypingCleanupDone(i, ok))

SpecTypingLive == InitTyping /\ [][NextTyping]_vars /\ TypingFairness

\* ---- CallbackService under any CALLBACK_RETRIES and webhook, called by the
\* handlers of ungrouped messages and directly
InitSend ==
    /\ cfg \in SendConfigs
    /\ MediaIdle
    /\ TypingInit
    /\ ListenerInit

NextSend ==
    \/ ClientStart
    \/ \E media \in ListenerMedia :
           Len(arrived) + DirectSends < MaxMsgs /\ NewMessage(NoGroup, media)
    \/ \E i \in MsgIds : ProcessMediaStep(i, <<"ok", 1>>)
    \/ \E i \in MsgIds : SendPayload(i)
    \/ \E i \in MsgIds : BuildPayloadRaises(i)
    \/ DirectSend
    \/ \E k \in MsgIds, outcome \in Outcomes : SendResponse(k, outcome)
    \/ \E k \in MsgIds : SendBackoffDone(k)
    \/ StopCancelTimers
    \/ StopSessionClosed
    \/ StopDisconnected

SpecSend == InitSend /\ [][NextSend]_vars

\* ---- The messages of one album, with and without media, up to the send call
NextFlush ==
    \/ ClientStart
    \/ \E media \in FlushMedia : NewMessage("g1", media)
    \/ \E i \in MsgIds : TimerCancelled(i)
    \/ \E i \in MsgIds : _process_media_group(i)
    \/ \E i \in MsgIds, f \in ListenerFetch : ProcessMediaStep(i, f)
    \/ \E i \in MsgIds : SendPayload(i)
    \/ Tick

SpecFlush == Init /\ [][NextFlush]_vars

\* ---- Albums of text-only messages, with the event loop running every task
\* that is ready and time going on
NextDebounce ==
    \/ ClientStart
    \/ \E g \in SeenGroups \cup {NextGroup} : NewMessage(g, NoMedia)
    \/ \E i \in MsgIds : TimerCancelled(i)
    \/ \E i \in MsgIds : _process_media_group(i)
    \/ \E i \in MsgIds : SendPayload(i)
    \/ StopCancelTimers
    \/ StopSessionClosed
    \/ StopDisconnected
    \/ Tick
    \/ TickIdle

Fairness ==
    /\ WF_vars(Tick)
    /\ \A i \in MsgIds : WF_vars(TimerCancelled(i))
    /\ \A i \in MsgIds : WF_vars(_process_media_group(i))

SpecDebounce == Init /\ [][NextDebounce]_vars /\ Fairness

\* ---- CallbackService: any sequence of start() and stop() calls, each
\* returning before the next is made
MaxOps == 6

CallbackStart ==
    /\ Len(lifecycle) < MaxOps
    /\ lifecycle' = Append(lifecycle, StartCall(lifecycle))
    /\ http_session' = "open"
    /\ UNCHANGED <<since, arrived, media_group_buffers, tasks, sendCalls, clientPc>>
    /\ UNCHANGED <<cfg, mediaVars, typingVars>>

CallbackStop ==
    /\ Len(lifecycle) < MaxOps
    /\ lifecycle' = Append(lifecycle, StopCall(lifecycle, http_session))
    /\ http_session' = IF StopCall(lifecycle, http_session).raised THEN http_session ELSE "none"
    /\ UNCHANGED <<since, arrived, media_group_buffers, tasks, sendCalls, clientPc>>
    /\ UNCHANGED <<cfg, mediaVars, typingVars>>

NextLifecycle ==
    \/ CallbackStart
    \/ CallbackStop

SpecLifecycle == Init /\ [][NextLifecycle]_vars

\* ---- MediaService.process_media called once, on any configuration and message
InitMedia ==
    /\ cfg \in Configs
    /\ mmsg \in MediaInputs
    /\ mres = NoResult
    /\ mpc = "call"
    /\ ListenerInit
    /\ TypingInit

ProcessMediaCall ==
    /\ mpc = "call"
    /\ mres' = process_media(cfg, mmsg)
    /\ mpc' = "returned"
    /\ UNCHANGED <<cfg, mmsg, lifecycle, listenerVars, typingVars>>

NextMedia == ProcessMediaCall

SpecMedia == InitMedia /\ [][NextMedia]_vars

(***************************************************************************)
(* Properties of the listener                                              *)
(***************************************************************************)
\* The message ids of a sequence of arrival records / payload entries.
ArrivalIds(as) == [k \in 1..Len(as) |-> as[k].id]
EntryIds(es) == [k \in 1..Len(es) |-> es[k].message_id]

\* The calls of callback_service.send made for group g, in order.
PayloadsOf(g) ==
    SelectSeq(sendCalls, LAMBDA c : c.payload.is_media_group /\ c.payload.media_group_id = g)

\* Message id is in the payload: as the message of an ungrouped payload, or as
\* an entry of a group payload's media_group_messages.
Contains(payload, id) ==
    IF payload.is_media_group
    THEN id \in Range(EntryIds(payload.media_group_messages))
    ELSE payload.message_id = id

\* Nothing of group g is pending: no buffer, no unfinished timer task.
GroupQuiet(g) ==
    /\ ~media_group_buffers[g].exists
    /\ \A i \in MsgIds : tasks[i].kind = "timer" /\ tasks[i].group_id = g => Done(tasks[i])

AllQuiet ==
    /\ \A g \in Groups : ~media_group_buffers[g].exists
    /\ \A i \in MsgIds : Done(tasks[i])

\* Every consecutive pair of g's messages arrived less than the timeout apart.
AllClose(g) ==
    \A k \in 1..Len(GroupArrivals(g)) :
        GroupArrivals(g)[k].first \/ GroupArrivals(g)[k].gap \in {"none", "shorter"}

\* Some consecutive pair of g's messages arrived more than the timeout apart.
SomeGapOver(g) ==
    \E k \in 1..Len(GroupArrivals(g)) :
        ~GroupArrivals(g)[k].first /\ GroupArrivals(g)[k].gap = "longer"

StrictlyIncreasing(ids) == \A j, k \in 1..Len(ids) : j < k => ids[j] < ids[k]

CallsWith(id) == {k \in 1..Len(sendCalls) : Contains(sendCalls[k].payload, id)}

LiveTasks(c) == {i \in TaskIds : ttasks[i].chat = c /\ Live(ttasks[i])}

\* C4: two typing tasks of the same key are never live (non-terminated) at the
\* same time: once a second start_typing has returned, the only live task of
\* the key is the one the registry holds, the second call's.
C4_OneLiveTaskPerKey ==
    \A c \in Chats :
        /\ Cardinality(LiveTasks(c)) <= 1
        /\ LiveTasks(c) \subseteq {registry[c]}

\* C5: every typing task that has ended sent a "cancel" signal to the
\* transport, however it ended.
C5_CancelOnEveryExit ==
    \A i \in TaskIds : ttasks[i].pc = "done" => ttasks[i].sent_cancel

\* The call cancel_typing's first step has just recorded.
LastCall(calls) == calls[Len(calls)]

\* C6: a step in which cancel_typing is called for a key the registry holds
\* nothing for sends one "cancel" signal for the chat, sets the flag it will
\* return to false, and changes neither the registry nor any task; the flag
\* is what the call returns.
C6_CancelWithoutTask ==
    [][(/\ Len(cancelCalls') = Len(cancelCalls) + 1
        /\ registry[LastCall(cancelCalls').chat] = 0)
       => /\ signals'[LastCall(cancelCalls').chat] = [last |-> "cancel", by |-> 0]
          /\ \A c \in Chats \ {LastCall(cancelCalls').chat} : signals'[c] = signals[c]
          /\ LastCall(cancelCalls').target = 0
          /\ ~LastCall(cancelCalls').cancelled_task
          /\ registry' = registry
          /\ ttasks' = ttasks]_vars

C6_Witness ==
    \E k \in 1..Len(cancelCalls) :
        /\ cancelCalls[k].pc = "returned"
        /\ cancelCalls[k].target = 0
        /\ ~cancelCalls[k].cancelled_task
        /\ registry[cancelCalls[k].chat] = 0
        /\ signals[cancelCalls[k].chat] = [last |-> "cancel", by |-> 0]

\* C7: the flag cancel_typing returns is true exactly when, at the call, the
\* registry held a task of the key that had not terminated, and then that
\* task has been asked to cancel.
C7_CancelReportsLiveTask ==
    \A k \in 1..Len(cancelCalls) :
        /\ cancelCalls[k].cancelled_task = cancelCalls[k].was_live
        /\ cancelCalls[k].cancelled_task =>
               ttasks[cancelCalls[k].target].cancel_requested

\* cancel_typing has returned true while the task it cancelled is still in
\* its cleanup.
C7_Witness ==
    \E k \in 1..Len(cancelCalls) :
        /\ cancelCalls[k].pc = "returned"
        /\ cancelCalls[k].cancelled_task
        /\ ttasks[cancelCalls[k].target].pc = "cleanup"

(***************************************************************************)
(* Properties of process_media                                             *)
(***************************************************************************)
ViolationTypes ==
    {"download_disabled", "not_downloadable", "type_not_enabled", "size_exceeded",
     "download_error"}

\* C8: for a message with media, the violation of the result is that of the
\* first check that fails, in the order switch, downloadable, allow-list,
\* size; when none fails the fetch is attempted and only then can the
\* violation be download_error.  The five violation types are distinct.
C8_FirstMatchWins ==
    (mpc = "returned" /\ mmsg.cls # "None") =>
        LET switch == cfg.ENABLE_MEDIA_DOWNLOAD
            downloadable == mmsg.cls \in DOWNLOADABLE_TYPES
            enabled == get_media_type(mmsg) \in cfg.DOWNLOAD_MEDIA_TYPES
            size == get_media_size(mmsg)
            over == ~IsNone(size) /\ size[1] > cfg.MAX_MEDIA_SIZE * 1024 * 1024
        IN  /\ Cardinality(ViolationTypes) = 5
            /\ mres.skipped <=> mres.violation \in ViolationTypes
            /\ ~switch => mres.violation = "download_disabled"
            /\ (switch /\ ~downloadable) => mres.violation = "not_downloadable"
            /\ (switch /\ downloadable /\ ~enabled) => mres.violation = "type_not_enabled"
            /\ (switch /\ downloadable /\ enabled /\ over) => mres.violation = "size_exceeded"
            /\ (switch /\ downloadable /\ enabled /\ ~over) =>
                   /\ mres.fetched
                   /\ mmsg.fetch = "raises" => mres.violation = "download_error"
                   /\ mmsg.fetch = "ok" => ~mres.skipped
            /\ mres.violation # "download_error" /\ mres.skipped => ~mres.fetched

\* Two checks fail, allow-list and size, and the earlier one is reported.
C8_Witness ==
    /\ mpc = "returned"
    /\ cfg.ENABLE_MEDIA_DOWNLOAD
    /\ mmsg.cls = "MessageMediaDocument"
    /\ get_media_type(mmsg) \notin cfg.DOWNLOAD_MEDIA_TYPES
    /\ get_media_size(mmsg) = Some((MAX_MEDIA_SIZE + 1) * MB)
    /\ mres.violation = "type_not_enabled"

\* C9: with downloads enabled and the kind downloadable and allow-listed, a
\* known size above MAX_MEDIA_SIZE * 1024 * 1024 bytes is skipped as
\* size_exceeded with no data and without calling download_media; a known
\* size at or below it is not rejected as size_exceeded and is fetched.
C9_SizeCeiling ==
    (/\ mpc = "returned"
     /\ cfg.ENABLE_MEDIA_DOWNLOAD
     /\ mmsg.cls \in DOWNLOADABLE_TYPES
     /\ get_media_type(mmsg) \in cfg.DOWNLOAD_MEDIA_TYPES
     /\ ~IsNone(get_media_size(mmsg))) =>
        IF get_media_size(mmsg)[1] > cfg.MAX_MEDIA_SIZE * 1024 * 1024
        THEN /\ mres.skipped
             /\ mres.violation = "size_exceeded"
             /\ IsNone(mres.base64)
             /\ ~mres.fetched
        ELSE /\ mres.violation # "size_exceeded"
             /\ mres.fetched

\* The 11 MB document against the 10 MB ceiling.
C9_Witness ==
    /\ mpc = "returned"
    /\ cfg.ENABLE_MEDIA_DOWNLOAD
    /\ mmsg.cls = "MessageMediaDocument"
    /\ get_media_type(mmsg) \in cfg.DOWNLOAD_MEDIA_TYPES
    /\ get_media_size(mmsg) = Some((MAX_MEDIA_SIZE + 1) * MB)
    /\ mres.violation = "size_exceeded"
    /\ ~mres.fetched

(***************************************************************************)
(* Properties of the callback dispatcher                                   *)
(***************************************************************************)
\* The backoff sleeps 2^0, 2^1, ..., 2^(n-1).
BackoffSeries(n) == [j \in 1..n |-> 2 ^ (j - 1)]

\* C11: a send that returns true has made exactly one POST more than the
\* attempts that failed, fewer than CALLBACK_RETRIES of them; between the
\* attempts it slept once per failure, for 1, 2, 4, ... seconds; it returns
\* true exactly when a POST was answered 200, and makes no POST afterwards.
C11_SuccessAfterFailures ==
    \A k \in 1..Len(sendCalls) :
        LET c == sendCalls[k]
        IN  /\ c.answered <=> c.result = "true"
            /\ c.result = "true" =>
                 /\ c.pc = "returned"
                 /\ c.failures < cfg.CALLBACK_RETRIES
                 /\ c.attempts = c.failures + 1
                 /\ c.sleeps = BackoffSeries(c.failures)

C11_Witness ==
    \E k \in 1..Len(sendCalls) :
        /\ cfg.CALLBACK_RETRIES = 3
        /\ sendCalls[k].result = "true"
        /\ sendCalls[k].attempts = 3
        /\ sendCalls[k].sleeps = <<1, 2>>

\* C12: send never makes more than CALLBACK_RETRIES POST attempts and never
\* raises; a send that found a session and returns false has made exactly
\* CALLBACK_RETRIES attempts, all failed, with CALLBACK_RETRIES - 1 sleeps
\* between them and none after the last, and makes no attempt afterwards.
C12_BoundedRetries ==
    \A k \in 1..Len(sendCalls) :
        LET c == sendCalls[k]
            N == cfg.CALLBACK_RETRIES
        IN  /\ ~c.raised
            /\ c.attempts <= N
            /\ (c.result = "false" /\ c.session # "none" /\ N >= 1) =>
                 /\ c.pc = "returned"
                 /\ c.attempts = N
                 /\ c.failures = N
                 /\ ~c.answered
                 /\ Len(c.sleeps) = N - 1

C12_Witness ==
    \E k \in 1..Len(sendCalls) :
        /\ cfg.CALLBACK_RETRIES = 3
        /\ sendCalls[k].result = "false"
        /\ sendCalls[k].session = "open"
        /\ sendCalls[k].attempts = 3
        /\ sendCalls[k].sleeps = <<1, 2>>

\* C13: a send called while http_session is None (before start(), after
\* stop()) returns false at once: no exception, no POST, no sleep.
C13_NotStarted ==
    \A k \in 1..Len(sendCalls) :
        sendCalls[k].session = "none" =>
            /\ sendCalls[k].pc = "returned"
            /\ sendCalls[k].result = "false"
            /\ ~sendCalls[k].raised
            /\ sendCalls[k].attempts = 0
            /\ sendCalls[k].sleeps = <<>>

\* One send was called before start() and one after stop() had closed the
\* session.
C13_Witness ==
    /\ \E k \in 1..Len(sendCalls) :
         /\ sendCalls[k].task = 0
         /\ sendCalls[k].session = "none"
         /\ sendCalls[k].result = "false"
    /\ \E k \in 1..Len(sendCalls) :
         /\ sendCalls[k].task # 0
         /\ sendCalls[k].session = "none"
         /\ sendCalls[k].result = "false"
         /\ cfg.CALLBACK_RETRIES >= 1

(***************************************************************************)
(* Ungrouped messages (SpecSend)                                           *)
(***************************************************************************)
\* The send calls made by the handler or timer task i.
CallsOf(i) == {k \in 1..Len(sendCalls) : sendCalls[k].task = i}

\* C14: an ungrouped message is handled at once, without a debounce sleep and
\* without a buffer, and leads to exactly one send call (none while its
\* handler is still at work, never a second one).  The payload of a text-only
\* message has media null and no media_files key.  When the webhook answers
\* the first POST with 200 the send returns true after that one attempt, with
\* no backoff sleep.
C14_UngroupedImmediate ==
    \A i \in 1..Len(arrived) :
        arrived[i].grouped_id = NoGroup =>
            /\ tasks[i].kind = "single"
            /\ tasks[i].pc # "sleeping"
            /\ \A g \in Groups : i \notin Range(media_group_buffers[g].messages)
            /\ Cardinality(CallsOf(i)) = IF Done(tasks[i]) /\ ~tasks[i].failed THEN 1 ELSE 0
            /\ \A k \in CallsOf(i) :
                 LET c == sendCalls[k]
                 IN  /\ c.payload.message_id = i
                     /\ ~c.payload.is_media_group
                     /\ arrived[i].media = NoMedia =>
                            /\ c.payload.media = None
                            /\ ~c.payload.has_media_files
                     /\ (c.answered /\ c.failures = 0) =>
                            /\ c.pc = "returned"
                            /\ c.result = "true"
                            /\ c.attempts = 1
                            /\ c.sleeps = <<>>

\* A text-only ungrouped message whose payload the webhook accepted at the
\* first attempt.
C14_Witness ==
    \E i \in 1..Len(arrived) :
        /\ arrived[i].grouped_id = NoGroup
        /\ arrived[i].media = NoMedia
        /\ \E k \in CallsOf(i) :
             /\ sendCalls[k].payload.media = None
             /\ sendCalls[k].answered
             /\ sendCalls[k].result = "true"
             /\ sendCalls[k].attempts = 1

(***************************************************************************)
(* Shutdown (Spec)                                                         *)
(***************************************************************************)
\* C15: stop() cancels the pending group timers, then closes the HTTP session
\* and only then disconnects (the transport is never disconnecting or
\* disconnected while a session is left, and no session is open once the
\* timers are cancelled); a timer that stop() cancelled never flushes, and no
\* payload is handed to send for a group that was buffering when stop()
\* cancelled its timer: no send call carries the message whose timer stop()
\* cancelled.
C15_StopNeverFlushes ==
    /\ clientPc \in {"disconnecting", "stopped"} => http_session = "none"
    /\ clientPc = "closing" => http_session # "open"
    /\ \A i \in MsgIds :
         tasks[i].stop_cancelled =>
             /\ clientPc \in {"closing", "disconnecting", "stopped"}
             /\ ~tasks[i].flushed
             /\ \A k \in 1..Len(sendCalls) : ~Contains(sendCalls[k].payload, i)

(***************************************************************************)
(* Isolation of handler errors (SpecSend)                                  *)
(***************************************************************************)
\* C16: an exception raised while one event is handled ends that handler
\* only: it never reaches the event stream (the client is never brought down
\* by it), the failed handler makes no send call, and every event that has
\* arrived, before or after the failure, has its own handler, which runs to
\* its send call unless it fails itself.
C16_HandlerIsolation ==
    /\ clientPc # "crashed"
    /\ \A i \in 1..Len(arrived) :
         /\ tasks[i].kind = "single"
         /\ tasks[i].failed => Done(tasks[i]) /\ CallsOf(i) = {}
         /\ (Done(tasks[i]) /\ ~tasks[i].failed) => CallsOf(i) # {}

\* The handler of the first event failed and the event after it was handled
\* and dispatched while the client was still running.
C16_Witness ==
    /\ clientPc = "running"
    /\ Len(arrived) = 2
    /\ tasks[1].failed
    /\ ~tasks[2].failed
    /\ CallsOf(2) # {}

(***************************************************************************)
(* Superseded timers (Spec)                                                *)
(***************************************************************************)
\* Timer task i was superseded: a later message was appended to the buffer
\* its own message is in, cancelling it and starting another timer.
Superseded(i) ==
    \/ \E g \in Groups : /\ i \in Range(media_group_buffers[g].messages)
                          /\ media_group_buffers[g].timer_task # i
    \/ \E j \in MsgIds \ {i} : tasks[j].flushed /\ i \in Range(tasks[j].messages)

\* C17: a superseded timer never runs _process_media_group, whether it is
\* cancelled during its sleep or after the sleep has elapsed: it never
\* flushes and, once the cancellation is requested, can only end.  Every
\* flush is made by the timer that the last message of the flushed buffer
\* started, and no message is in two flushes.
C17_SupersededTimerIsNoOp ==
    /\ \A i \in MsgIds :
         (tasks[i].kind = "timer" /\ Superseded(i)) =>
             /\ ~tasks[i].flushed
             /\ tasks[i].messages = <<>>
             /\ Done(tasks[i]) \/ (tasks[i].pc = "sleeping" /\ tasks[i].must_cancel)
    /\ \A i \in MsgIds :
         tasks[i].flushed =>
             /\ tasks[i].messages # <<>>
             /\ tasks[i].messages[Len(tasks[i].messages)] = i
    /\ \A i, j \in MsgIds :
         (i # j /\ tasks[i].flushed /\ tasks[j].flushed) =>
             Range(tasks[i].messages) \cap Range(tasks[j].messages) = {}

\* A timer whose sleep had elapsed when the next message of its group
\* cancelled it has ended without a flush, and the timer that replaced it has
\* flushed the buffer with both messages.
C17_Witness ==
    \E i, j \in MsgIds :
        /\ i # j
        /\ tasks[i].kind = "timer"
        /\ Done(tasks[i])
        /\ tasks[i].remaining = 0
        /\ ~tasks[i].flushed
        /\ ~tasks[i].stop_cancelled
        /\ tasks[j].flushed
        /\ i \in Range(tasks[j].messages)

\* The timer tasks of group g that have not completed (Task.done() is False).
\* A task that has handed its payload to send counts as completed here, which
\* can only make the set smaller.
PendingTimers(g) ==
    {i \in MsgIds : tasks[i].kind = "timer" /\ tasks[i].group_id = g /\ ~Done(tasks[i])}

\* C18: in every reachable state each group key has at most one debounce
\* timer task that has not completed, also right after an append has
\* cancelled and replaced the pending timer, and while a fired timer is
\* still flushing and a new message of the key arrives.
C18_OneTimerPerKey ==
    \A g \in Groups : Cardinality(PendingTimers(g)) <= 1

(***************************************************************************)
(* The typing registry (SpecTyping)                                        *)
(***************************************************************************)
\* The typing tasks created for chat c; task ids grow with creation.
TasksOf(c) == {i \in TypingCreated : ttasks[i].chat = c}

Newest(c) == CHOOSE i \in TasksOf(c) : \A j \in TasksOf(c) : j <= i

\* C19: a typing task that a later start_typing replaced in the registry
\* never removes or overwrites the newer task's entry: the entry of a chat
\* never refers to any task but the newest one created for it, and as long
\* as the newest task has not terminated the entry refers to it, whatever
\* the older tasks do in their cleanup.
C19_ReplacedTaskKeepsEntry ==
    \A c \in Chats :
        TasksOf(c) # {} =>
            /\ registry[c] \in {0, Newest(c)}
            /\ ~TypingDone(ttasks[Newest(c)]) => registry[c] = Newest(c)

\* A task cancelled by the start_typing that replaced it has gone through
\* its cleanup and is done, and the entry refers to the newer, live task.
C19_Witness ==
    \E c \in Chats, i, j \in TaskIds :
        /\ i < j
        /\ {i, j} \subseteq TasksOf(c)
        /\ cancelCalls = <<>>
        /\ ttasks[i].cancel_requested
        /\ ttasks[i].sent_cancel
        /\ ttasks[i].pc = "done"
        /\ Live(ttasks[j])
        /\ registry[c] = j

\* C20: a typing task that has terminated, in whatever way, is no longer
\* referred to by the registry: the entry that referred to it when it ended
\* has been removed.
C20_DoneTaskUnregistered ==
    \A c \in Chats : registry[c] # 0 => ttasks[registry[c]].pc # "done"

(***************************************************************************)
(* The payload of an album (SpecFlush)                                     *)
(***************************************************************************)
\* The messages of the list that carry media, in the order of the list.
MediaBearing(msgs) == SelectSeq(msgs, LAMBDA id : arrived[id].media.cls # "None")

\* C21: a flush makes at most one send call, and exactly one once it has run
\* through, also when no message of the album has media.  Its payload takes
\* message_id and media from the first buffered message, lists every buffered
\* message in media_group_messages in arrival order, and has one media_files
\* entry for each media-bearing message, downloaded or skipped, in the same
\* order; the media_files key is present exactly when some message has media.
C21_GroupPayloadShape ==
    \A i \in MsgIds :
        tasks[i].flushed =>
            LET msgs == tasks[i].messages
                bearing == MediaBearing(msgs)
            IN  /\ Cardinality(CallsOf(i)) = IF Done(tasks[i]) /\ ~tasks[i].failed THEN 1 ELSE 0
                /\ StrictlyIncreasing(msgs)
                /\ \A k \in CallsOf(i) :
                     LET payload == sendCalls[k].payload
                     IN  /\ payload.is_media_group
                         /\ payload.media_group_id = tasks[i].group_id
                         /\ payload.message_id = msgs[1]
                         /\ payload.media = media_info(arrived[msgs[1]].media)
                         /\ EntryIds(payload.media_group_messages) = msgs
                         /\ \A j \in 1..Len(msgs) :
                              payload.media_group_messages[j].media =
                                  media_info(arrived[msgs[j]].media)
                         /\ Len(payload.media_files) = Len(bearing)
                         /\ \A j \in 1..Len(bearing) :
                              /\ payload.media_files[j].present
                              /\ payload.media_files[j].type =
                                     get_media_type(arrived[bearing[j]].media)
                         /\ payload.has_media_files <=> bearing # <<>>

\* An album of a text-only message followed by a photo was dispatched: two
\* media_group_messages entries, the envelope of the first message, and one
\* media_files entry, the photo's.
C21_Witness ==
    \E k \in 1..Len(sendCalls) :
        LET payload == sendCalls[k].payload
        IN  /\ payload.is_media_group
            /\ EntryIds(payload.media_group_messages) = <<1, 2>>
            /\ payload.message_id = 1
            /\ payload.media = None
            /\ arrived[2].media.cls = "MessageMediaPhoto"
            /\ Len(payload.media_files) = 1
            /\ payload.media_files[1].type = "photo"
            /\ ~payload.media_files[1].skipped

(***************************************************************************)
(* Debounce (SpecDebounce)                                                 *)
(***************************************************************************)
\* Timer task i flushes in this step.
Flushes(i) == ~tasks[i].flushed /\ tasks'[i].flushed

\* Group g is buffering n messages' worth of arrivals while the client runs.
Buffering(g, n) ==
    /\ clientPc = "running"
    /\ media_group_buffers[g].exists
    /\ Len(GroupArrivals(g)) = n

\* C22: a flush of a group never runs while less than MEDIA_GROUP_TIMEOUT has
\* passed since the latest append to the group, however long ago its first
\* message arrived; and a group that is buffering while the client runs is
\* eventually flushed, unless another message of the group arrives or the
\* client is stopped first.
C22_PureDebounce ==
    /\ [][\A i \in MsgIds :
             Flushes(i) => since[tasks[i].group_id] >= MEDIA_GROUP_TIMEOUT]_vars
    /\ \A g \in Groups, n \in MsgIds :
           Buffering(g, n) ~> \/ ~media_group_buffers[g].exists
                              \/ Len(GroupArrivals(g)) > n
                              \/ clientPc # "running"

\* A group of two messages, the second of which arrived during the first
\* one's timer, was flushed by the second timer a full timeout after the
\* second message, with the client running.
C22_Witness ==
    /\ clientPc = "running"
    /\ \E i \in MsgIds :
         /\ tasks[i].flushed
         /\ tasks[i].messages = <<1, 2>>
         /\ arrived[2].gap = "shorter"
         /\ ~media_group_buffers[tasks[i].group_id].exists

(***************************************************************************)
(* Unknown sizes (SpecMedia)                                               *)
(***************************************************************************)
\* C23: media that passes the other checks and whose size is unknown before
\* the download is not rejected as size_exceeded and is fetched; and no
\* result reported as downloaded (skipped = false) has a size above
\* MAX_MEDIA_SIZE * 1024 * 1024 bytes: a download that turns out larger is
\* rejected afterwards.
C23_UnknownSizeCeiling ==
    mpc = "returned" =>
        /\ (/\ cfg.ENABLE_MEDIA_DOWNLOAD
            /\ mmsg.cls \in DOWNLOADABLE_TYPES
            /\ get_media_type(mmsg) \in cfg.DOWNLOAD_MEDIA_TYPES
            /\ IsNone(get_media_size(mmsg))) =>
               mres.fetched
        /\ (mres.present /\ ~mres.skipped) =>
               /\ ~IsNone(mres.size)
               /\ mres.size[1] <= cfg.MAX_MEDIA_SIZE * 1024 * 1024

(***************************************************************************)
(* Failing signals (SpecTyping)                                            *)
(***************************************************************************)
\* The "typing" call of task t raised: the task went on to its finally block
\* without having sent the signal.
TypingSignalFailed(t) == t.sent_cancel /\ ~t.sent_typing

\* C24: a signal that fails never fails the operation.  No call of
\* cancel_typing ends in an exception: one whose "cancel" signal raised has
\* returned its flag all the same.  A typing task whose "typing" signal or
\* whose final "cancel" signal raised, and which was not cancelled on the way,
\* is done with its own registry entry removed.  (start_typing itself sends no signal and
\* only creates the task.)
C24_SignalFailureIsolated ==
    /\ \A k \in 1..Len(cancelCalls) :
         /\ cancelCalls[k].pc \in {"await", "returned"}
         /\ cancelCalls[k].signal_failed =>
                /\ cancelCalls[k].pc = "returned"
                /\ cancelCalls[k].cancelled_task = cancelCalls[k].was_live
    /\ \A i \in TaskIds :
         (/\ ttasks[i].pc = "done"
          /\ \/ ttasks[i].cancel_failed
             \/ TypingSignalFailed(ttasks[i]) /\ ~ttasks[i].cancel_requested) =>
             registry[ttasks[i].chat] # i

\* A cancel_typing whose signal raised has returned true for the live task
\* it cancelled, and that task, whose own final "cancel" signal raised as
\* well, is done and out of the registry.
C24_Witness ==
    \E k \in 1..Len(cancelCalls), i \in TaskIds :
        /\ cancelCalls[k].signal_failed
        /\ cancelCalls[k].pc = "returned"
        /\ cancelCalls[k].cancelled_task
        /\ cancelCalls[k].target = i
        /\ ttasks[i].pc = "done"
        /\ ttasks[i].cancel_failed
        /\ registry[ttasks[i].chat] = 0

(***************************************************************************)
(* Termination of typing tasks (SpecTypingLive)                            *)
(***************************************************************************)
\* C25: every typing task that start_typing created eventually terminates,
\* once its sleep has ended and its final "cancel" call has returned or
\* raised; a task whose cancellation is pending does not wait for its
\* duration, its next step takes it to its finally block or ends it; and a
\* task that has terminated stays so.
C25_TypingTerminates ==
    /\ \A i \in TaskIds : Live(ttasks[i]) ~> (ttasks[i].pc = "done")
    /\ [][\A i \in TaskIds :
             /\ (ttasks[i].must_cancel /\ ttasks'[i].pc # ttasks[i].pc) =>
                    ttasks'[i].pc \in {"cleanup", "done"}
             /\ ttasks[i].pc = "done" => ttasks'[i].pc = "done"]_vars

\* A task that was never cancelled is done after sending "typing" and, at the
\* end of its duration, "cancel".
C25_Witness ==
    \E i \in TaskIds :
        /\ ttasks[i].pc = "done"
        /\ ttasks[i].sent_typing
        /\ ttasks[i].sent_cancel
        /\ ~ttasks[i].cancel_requested

(***************************************************************************)
(* The dispatcher's session (SpecLifecycle)                                *)
(***************************************************************************)
\* C26: a stop() that follows a stop(), or that no start() preceded, closes
\* nothing and raises nothing, and after any stop() the dispatcher is not
\* started: http_session is None.
C26_StopIdempotent ==
    /\ \A k \in 1..Len(lifecycle) :
         (lifecycle[k].op = "stop" /\ (k = 1 \/ lifecycle[k - 1].op = "stop")) =>
             /\ lifecycle[k].closed = 0
             /\ ~lifecycle[k].raised
    /\ (lifecycle = <<>> \/ lifecycle[Len(lifecycle)].op = "stop") => http_session = "none"

\* stop() before any start(), then start(), stop() and stop() again: the
\* third call closed the session, the first and the last closed nothing.
C26_Witness ==
    /\ Len(lifecycle) = 4
    /\ lifecycle[1].op = "stop"
    /\ lifecycle[2].op = "start"
    /\ lifecycle[3].op = "stop"
    /\ lifecycle[3].closed = 1
    /\ lifecycle[4].op = "stop"
    /\ lifecycle[4].closed = 0
    /\ http_session = "none"

\* The sessions the dispatcher created and has not closed.
OpenSessions(log) == Created(log) \ {log[k].closed : k \in 1..Len(log)}

\* C27: after any sequence of start() and stop() calls at most one session
\* created by the dispatcher is open, and after a stop() none is.
C27_OneSession ==
    /\ Cardinality(OpenSessions(lifecycle)) <= 1
    /\ (lifecycle # <<>> /\ lifecycle[Len(lifecycle)].op = "stop") =>
           OpenSessions(lifecycle) = {}

(***************************************************************************)
(* Work scheduled during shutdown (Spec)                                   *)
(***************************************************************************)
\* stop() has begun: it has cancelled the timers and is closing the session,
\* disconnecting, or has returned.
StopBegun == clientPc \in {"closing", "disconnecting", "stopped"}

\* C28: once stop() has begun no debounce timer is pending (sleeping with no
\* cancellation requested), so a message that arrives while stop() is
\* awaiting leaves none behind; and no send call makes a POST attempt on a
\* session that stop() has closed.
C28_NoWorkAfterStop ==
    /\ StopBegun =>
           \A i \in MsgIds :
               ~(tasks[i].kind = "timer" /\ tasks[i].pc = "sleeping" /\ ~tasks[i].must_cancel)
    /\ \A k \in 1..Len(sendCalls) :
           sendCalls[k].session = "closed" => sendCalls[k].attempts = 0

(***************************************************************************)
(* Signals of a replaced typing task (SpecTyping)                          *)
(***************************************************************************)
\* C29: while the task registered for a chat is inside its typing block (it
\* has sent "typing" and has not left the block), the last signal the
\* transport received for that chat is not the "cancel" of an earlier task
\* of the same chat that start_typing cancelled.
C29_SupersededCancelNotLast ==
    \A c \in Chats :
        LET j == registry[c]
        IN  (j # 0 /\ ttasks[j].pc = "sleeping")
                => ~(/\ signals[c].last = "cancel"
                     /\ signals[c].by \in TasksOf(c)
                     /\ signals[c].by < j
                     /\ ttasks[signals[c].by].cancel_requested)

(***************************************************************************)
(* Independence of group keys (SpecDebounce)                               *)
(***************************************************************************)
\* This step appends a message to group g.
Appends(g) ==
    /\ Len(arrived') = Len(arrived) + 1
    /\ arrived'[Len(arrived')].grouped_id = g

\* The timer tasks created for group g.
TimersOf(g) == {i \in MsgIds : tasks[i].kind = "timer" /\ tasks[i].group_id = g}

\* C30: a step that appends a message to a group G1, or flushes G1, leaves
\* every other group G2 as it was: G2's buffer (its messages and the timer it
\* refers to), every timer task of G2 (none cancelled, none created, none
\* restarted) and the time since G2's latest message; and every message of a
\* group payload, sent or being built, belongs to the payload's group.
C30_GroupsIndependent ==
    /\ [][\A g1 \in Groups, g2 \in Groups :
             (/\ g1 # g2
              /\ Appends(g1) \/ \E i \in MsgIds : Flushes(i) /\ tasks[i].group_id = g1)
                 => /\ media_group_buffers'[g2] = media_group_buffers[g2]
                    /\ \A j \in MsgIds :
                           (j \in TimersOf(g2) \/ tasks'[j].group_id = g2)
                               => tasks'[j] = tasks[j]
                    /\ since'[g2] = since[g2]]_vars
    /\ [](\A i \in MsgIds :
             tasks[i].kind = "timer" =>
                 \A k \in 1..Len(tasks[i].messages) :
                     arrived[tasks[i].messages[k]].grouped_id = tasks[i].group_id)
    /\ [](\A k \in 1..Len(sendCalls) :
             sendCalls[k].payload.is_media_group =>
                 \A n \in 1..Len(sendCalls[k].payload.media_group_messages) :
                     arrived[sendCalls[k].payload.media_group_messages[n].message_id].grouped_id
                         = sendCalls[k].payload.media_group_id)

\* Group g2's message arrived while g1's timer was pending; g1 has been
\* flushed on time with its own message only, and g2 is still buffering its
\* message with its timer pending and due when it was due before.
C30_Witness ==
    /\ Len(arrived) = 2
    /\ arrived[1].grouped_id = "g1"
    /\ arrived[2].grouped_id = "g2"
    /\ tasks[1].flushed
    /\ tasks[1].messages = <<1>>
    /\ since["g1"] = MEDIA_GROUP_TIMEOUT
    /\ since["g2"] = 1
    /\ media_group_buffers["g2"] = [exists |-> TRUE, messages |-> <<2>>, timer_task |-> 2]
    /\ tasks[2].pc = "sleeping"
    /\ ~tasks[2].must_cancel
    /\ tasks[2].remaining = MEDIA_GROUP_TIMEOUT - 1

====
